---- MODULE Spec2Model ----
(***************************************************************************)
(* Receipt renamer: the name-extraction heuristics of main.py and          *)
(* main2.py, the Filename Resolver (rename_file) and the batch             *)
(* orchestrator (process_folder / process_folder_interactive).             *)
(*                                                                         *)
(* A Python str is a sequence of characters; a character is a one-letter   *)
(* TLA+ string, or a "U+xxxx" token for a character outside printable      *)
(* ASCII.  A file name is a sequence of such characters too.               *)
(***************************************************************************)
EXTENDS Integers, Sequences, FiniteSets, TLC

VARIABLES
    config,        \* self.config / CONFIG: keywords, excluded words, settings
    text_lines,    \* the text the Text Source Adapter produced for one file
    name_result,   \* what extract_customer_name returned for text_lines
    detected_bank, \* what its detect_bank call returned: index of the bank in
                   \* the banks mapping, 0 for None
    xpc,           \* position of the extraction run: "input" | "done" | "batch"
    platform,      \* "linux" | "macos" | "windows": what os.rename, the file
                   \* system and Path.glob do with letter case and with targets
    max_workers,   \* process_folder's max_workers
    origName,      \* name each file of the folder had when the run began
    dirName,       \* current name of each file, <<>> once it was overwritten
    gext,          \* index of the glob pattern the enumeration is at
    yielded,       \* files the current glob has yielded already
    enumerated,    \* every name the globs yielded, in order
    files,         \* process_folder's files: the names selected for processing
    seen_files,    \* process_folder's seen_files
    ppc,           \* position of process_folder / process_folder_interactive
    task,          \* per selected file: the process_single_file call's locals
    results,       \* self.results
    failed,        \* process_folder_interactive's failed: indexes into results
    summary,       \* the counts save_report printed last
    hist,          \* per selected file: what was called for it and how it went
    bulk           \* main2.py's process_receipts_bulk: the text each file
                   \* yields, the number of the run, the names when the run
                   \* began, whether a rename has raised

xvars == <<config, text_lines, name_result, detected_bank, xpc>>
bvars == <<platform, max_workers, origName, dirName, gext, yielded,
           enumerated, files, seen_files, ppc, task, results, failed, summary,
           hist>>
kvars == <<bulk>>
vars == <<xvars, bvars, kvars>>

----------------------------------------------------------------------------
(* Characters and the str methods the code uses                            *)

UpperSeq == <<"A","B","C","D","E","F","G","H","I","J","K","L","M","N","O",
              "P","Q","R","S","T","U","V","W","X","Y","Z","U+00C9">>
LowerSeq == <<"a","b","c","d","e","f","g","h","i","j","k","l","m","n","o",
              "p","q","r","s","t","u","v","w","x","y","z","U+00E9">>

NLetters == Len(UpperSeq)
NAscii == NLetters - 1

UpperChars == {UpperSeq[i] : i \in 1..NLetters}
LowerChars == {LowerSeq[i] : i \in 1..NLetters}
AsciiLetters == {UpperSeq[i] : i \in 1..NAscii} \cup {LowerSeq[i] : i \in 1..NAscii}
Digits == {"0","1","2","3","4","5","6","7","8","9"}

\* str.isspace / regex \s: space and tab stand for the whitespace class
WhiteSpace == {" ", "U+0009"}

LowerMap == [c \in UpperChars |-> LowerSeq[CHOOSE i \in 1..NLetters : UpperSeq[i] = c]]
UpperMap == [c \in LowerChars |-> UpperSeq[CHOOSE i \in 1..NLetters : LowerSeq[i] = c]]

LowerChar(c) == IF c \in UpperChars THEN LowerMap[c] ELSE c
UpperChar(c) == IF c \in LowerChars THEN UpperMap[c] ELSE c

\* one character of str.isalpha (Unicode letters, not only ASCII)
IsAlphaChar(c) == c \in UpperChars \cup LowerChars

\* regex \w: letters, digits and the underscore
IsWordChar(c) == IsAlphaChar(c) \/ c \in Digits \/ c = "_"

\* str.lower()
Lower(s) == [i \in 1..Len(s) |-> LowerChar(s[i])]

\* str.isalpha(): non-empty and every character a letter
IsAlpha(s) == Len(s) > 0 /\ \A i \in 1..Len(s) : IsAlphaChar(s[i])

\* str.isdigit()
IsDigit(s) == Len(s) > 0 /\ \A i \in 1..Len(s) : s[i] \in Digits

\* sub in s
Contains(sub, s) ==
    \E i \in 0..(Len(s) - Len(sub)) : SubSeq(s, i + 1, i + Len(sub)) = sub

\* str.replace(c, '') for a one-character c
RemoveChar(s, c) == SelectSeq(s, LAMBDA x : x # c)

\* str.replace(a, b) for one-character a and b
ReplaceChar(s, a, b) == [i \in 1..Len(s) |-> IF s[i] = a THEN b ELSE s[i]]

\* str.strip()
Strip(s) ==
    LET nonws == {i \in 1..Len(s) : s[i] \notin WhiteSpace}
    IN  IF nonws = {} THEN <<>>
        ELSE SubSeq(s, CHOOSE i \in nonws : \A j \in nonws : i <= j,
                       CHOOSE i \in nonws : \A j \in nonws : i >= j)

\* str.split(): the maximal runs of non-whitespace characters, in order
RECURSIVE SplitFrom(_, _, _)
SplitFrom(s, i, cur) ==
    IF i > Len(s) THEN (IF cur = <<>> THEN <<>> ELSE <<cur>>)
    ELSE IF s[i] \in WhiteSpace
         THEN (IF cur = <<>> THEN <<>> ELSE <<cur>>) \o SplitFrom(s, i + 1, <<>>)
         ELSE SplitFrom(s, i + 1, Append(cur, s[i]))

Split(s) == SplitFrom(s, 1, <<>>)

\* ' '.join(words)
RECURSIVE JoinSpace(_)
JoinSpace(ws) ==
    IF ws = <<>> THEN <<>>
    ELSE IF Len(ws) = 1 THEN ws[1]
    ELSE ws[1] \o <<" ">> \o JoinSpace(Tail(ws))

\* re.sub(r'\s+', ' ', s): every whitespace run becomes one space
CollapseWhitespace(s) ==
    LET keep == {i \in 1..Len(s) :
                    s[i] \notin WhiteSpace \/ i = 1 \/ s[i - 1] \notin WhiteSpace}
        F[i \in 0..Len(s)] ==
            IF i = 0 THEN <<>>
            ELSE IF i \in keep
                 THEN Append(F[i - 1], IF s[i] \in WhiteSpace THEN " " ELSE s[i])
                 ELSE F[i - 1]
    IN  F[Len(s)]

\* re.sub(r'[^A-Za-z\s]', '', s)
RemoveNonLetters(s) ==
    SelectSeq(s, LAMBDA c : c \in AsciiLetters \/ c \in WhiteSpace)

----------------------------------------------------------------------------
(* main.py: MalaysianBankReceiptProcessor.extract_customer_name            *)

\* the two re.sub calls and the strip of the keyword tier
CleanName(potential_name) ==
    Strip(RemoveNonLetters(CollapseWhitespace(potential_name)))

\* any(excluded.lower() in s.lower() for excluded in self.excluded_words)
HasExcluded(cfg, s) ==
    \E k \in 1..Len(cfg.excluded_words) :
        Contains(Lower(cfg.excluded_words[k]), Lower(s))

\* the inner keyword loop: the first configured keyword found in the
\* lowercased line, <<>> standing for None
MatchedKeyword(cfg, line) ==
    LET hits == {k \in 1..Len(cfg.name_keywords) :
                    Contains(cfg.name_keywords[k], Lower(line))}
    IN  IF hits = {} THEN <<>>
        ELSE cfg.name_keywords[CHOOSE k \in hits : \A j \in hits : k <= j]

\* the candidate the keyword tier takes at line i: the stripped next line
PotentialName(lines, i) == Strip(lines[i + 1])

\* all the gates of the keyword tier at line i
KeywordAccepts(cfg, lines, i) ==
    /\ MatchedKeyword(cfg, lines[i]) # <<>>
    /\ i + 1 <= Len(lines)
    /\ LET potential_name == PotentialName(lines, i)
           is_alpha == IsAlpha(RemoveChar(RemoveChar(potential_name, " "), "."))
           clean_name == CleanName(potential_name)
       IN  /\ potential_name # <<>>
           /\ is_alpha
           /\ Len(clean_name) > cfg.min_name_length
           /\ Len(Split(clean_name)) <= cfg.max_name_words
           /\ ~HasExcluded(cfg, clean_name)

NoName == [tier |-> "none", name |-> <<>>]

RECURSIVE KeywordTier(_, _, _)
KeywordTier(cfg, lines, i) ==
    IF i > Len(lines) THEN NoName
    ELSE IF KeywordAccepts(cfg, lines, i)
         THEN [tier |-> "keyword", name |-> CleanName(PotentialName(lines, i))]
         ELSE KeywordTier(cfg, lines, i + 1)

MinTopLines == 10
ShortLine == 6

Max(a, b) == IF a >= b THEN a ELSE b
Min(a, b) == IF a <= b THEN a ELSE b

\* the window of the simpler variant: the first 15 lines
TopFifteenLines(lines) == SubSeq(lines, 1, Min(Len(lines), 15))

\* text_lines[:max(10, len(text_lines) // 3)]
TopLines(lines) ==
    SubSeq(lines, 1, Min(Len(lines), Max(MinTopLines, Len(lines) \div 3)))

\* all the gates of the fallback tier for one line
FallbackAccepts(cfg, line) ==
    /\ Len(line) >= ShortLine
    /\ IsAlpha(RemoveChar(line, " "))
    /\ 2 <= Len(Split(line))
    /\ Len(Split(line)) <= cfg.max_name_words
    /\ ~HasExcluded(cfg, line)

RECURSIVE FallbackTier(_, _, _)
FallbackTier(cfg, top, i) ==
    IF i > Len(top) THEN NoName
    ELSE IF FallbackAccepts(cfg, top[i])
         THEN [tier |-> "fallback", name |-> top[i]]
         ELSE FallbackTier(cfg, top, i + 1)

extract_customer_name(cfg, lines) ==
    LET m1 == KeywordTier(cfg, lines, 1)
    IN  IF m1.tier # "none" THEN m1
        ELSE FallbackTier(cfg, TopLines(lines), 1)

----------------------------------------------------------------------------
(* main2.py: detect_bank, clean_name, is_valid_name, extract_customer_name *)

NewLine == "\n"

\* '\n'.join(lines)
RECURSIVE JoinLines(_)
JoinLines(lines) ==
    IF lines = <<>> THEN <<>>
    ELSE IF Len(lines) = 1 THEN lines[1]
    ELSE lines[1] \o <<NewLine>> \o JoinLines(Tail(lines))

\* text.split('\n'): never empty, '' gives ['']
RECURSIVE SplitLinesFrom(_, _, _)
SplitLinesFrom(text, i, cur) ==
    IF i > Len(text) THEN <<cur>>
    ELSE IF text[i] = NewLine
         THEN <<cur>> \o SplitLinesFrom(text, i + 1, <<>>)
         ELSE SplitLinesFrom(text, i + 1, Append(cur, text[i]))

SplitLines(text) == SplitLinesFrom(text, 1, <<>>)

\* bank_config.get(key, []): a bank profile is a record that may lack the
\* 'keywords' or the 'app_names' entry
BankGet(bank, key) == IF key \in DOMAIN bank THEN bank[key] ELSE <<>>

\* some keyword or app name of the bank occurs in the lowercased text
BankIndicated(bank, text) ==
    LET all_indicators == BankGet(bank, "keywords") \o BankGet(bank, "app_names")
    IN  \E k \in 1..Len(all_indicators) :
            Contains(Lower(all_indicators[k]), Lower(text))

\* the last bank of the mapping that has an indicator in the text
detect_last_bank(cfg, full_text) ==
    LET hits == {b \in 1..Len(cfg.banks) : BankIndicated(cfg.banks[b], full_text)}
    IN  IF hits = {} THEN 0 ELSE CHOOSE b \in hits : \A c \in hits : b >= c

\* main.py: index of the bank detect_bank returns, 0 for None
detect_bank(cfg, full_text) ==
    LET hits == {b \in 1..Len(cfg.banks) : BankIndicated(cfg.banks[b], full_text)}
    IN  IF hits = {} THEN 0 ELSE CHOOSE b \in hits : \A c \in hits : b <= c

\* main2.py: index of the bank detect_bank returns, 0 for (None, None)
detect_bank2(cfg, text) ==
    LET hits == {b \in 1..Len(cfg.banks) : BankIndicated(cfg.banks[b], text)}
    IN  IF hits = {} THEN 0 ELSE CHOOSE b \in hits : \A c \in hits : b <= c

\* excluded_words = [w.lower() for w in CONFIG.get('excluded_words', [])]
LoweredExcluded(cfg) ==
    {Lower(cfg.excluded_words[k]) : k \in 1..Len(cfg.excluded_words)}

\* the word filter of clean_name
KeepsWord(word, excluded) ==
    /\ Lower(word) \notin excluded
    /\ ~IsDigit(RemoveChar(RemoveChar(word, "-"), "/"))
    /\ Len(word) > 1

clean_name2(name, excluded) ==
    JoinSpace(SelectSeq(Split(name), LAMBDA w : KeepsWord(w, excluded)))

is_valid_name2(name, min_length, max_words) ==
    /\ name # <<>>
    /\ ~(Len(name) < min_length)
    /\ ~(Len(Split(name)) > max_words)
    /\ \E i \in 1..Len(name) : IsAlphaChar(name[i])

\* keywords = bank_keywords + [k for k in keywords if k not in bank_keywords]
KeywordList(cfg, text) ==
    LET b == detect_bank2(cfg, text)
    IN  IF b = 0 THEN cfg.name_keywords
        ELSE BankGet(cfg.banks[b], "keywords")
                 \o SelectSeq(cfg.name_keywords,
                       LAMBDA k : \A j \in 1..Len(BankGet(cfg.banks[b], "keywords")) :
                                      BankGet(cfg.banks[b], "keywords")[j] # k)

\* start offsets of the keyword in the line, ignoring case
Occurrences(keyword, line) ==
    {p \in 0..(Len(line) - Len(keyword)) :
        Lower(SubSeq(line, p + 1, p + Len(keyword))) = Lower(keyword)}

\* length of the longest prefix of s made of whitespace and colons
SepRun(s) ==
    LET stops == {i \in 1..Len(s) : s[i] \notin WhiteSpace /\ s[i] # ":"}
    IN  IF stops = {} THEN Len(s)
        ELSE (CHOOSE i \in stops : \A j \in stops : i <= j) - 1

\* re.search(re.escape(keyword) + r'[\s:]*(.+?)(?:\n|$)', line, re.IGNORECASE):
\* <<>> when there is no match, else <<group(1)>>.  The leftmost occurrence
\* of the keyword that has a character after it matches; the separator run
\* gives its last character back when nothing else is left for (.+?).
SameLineMatch(keyword, line) ==
    LET occ == {p \in Occurrences(keyword, line) : p + Len(keyword) < Len(line)}
    IN  IF occ = {} THEN <<>>
        ELSE LET p == CHOOSE q \in occ : \A r \in occ : q <= r
                 rest == SubSeq(line, p + Len(keyword) + 1, Len(line))
                 run == SepRun(rest)
             IN  IF run < Len(rest)
                 THEN << SubSeq(rest, run + 1, Len(rest)) >>
                 ELSE << SubSeq(rest, Len(rest), Len(rest)) >>

\* what one (keyword, line) visit of the keyword tier returns: <<>> when it
\* falls through, else <<name>>
VisitLine(cfg, keyword, lines, i) ==
    LET excluded == LoweredExcluded(cfg)
        m == SameLineMatch(keyword, lines[i])
        same == IF m = <<>> THEN <<>> ELSE clean_name2(Strip(m[1]), excluded)
        next == IF i + 1 <= Len(lines)
                THEN clean_name2(Strip(lines[i + 1]), excluded) ELSE <<>>
    IN  IF ~Contains(Lower(keyword), Lower(lines[i])) THEN <<>>
        ELSE IF m # <<>> /\ is_valid_name2(same, cfg.min_name_length, cfg.max_name_words)
             THEN <<same>>
        ELSE IF i + 1 <= Len(lines)
                  /\ is_valid_name2(next, cfg.min_name_length, cfg.max_name_words)
             THEN <<next>>
        ELSE <<>>

\* for keyword in keywords: for i, line in enumerate(lines): ...
RECURSIVE KeywordTier2(_, _, _, _, _)
KeywordTier2(cfg, keywords, lines, k, i) ==
    IF k > Len(keywords) THEN <<>>
    ELSE IF i > Len(lines) THEN KeywordTier2(cfg, keywords, lines, k + 1, 1)
    ELSE LET v == VisitLine(cfg, keywords[k], lines, i)
         IN  IF v # <<>> THEN v
             ELSE KeywordTier2(cfg, keywords, lines, k, i + 1)

FallbackWindow == 15

IsUpperChar(c) == c \in UpperChars

\* one line of the capitalized-words fallback: <<>> or <<name>>
FallbackLine2(cfg, line) ==
    LET words == Split(Strip(line))
        potential_name == clean_name2(JoinSpace(words), LoweredExcluded(cfg))
    IN  IF /\ 2 <= Len(words)
           /\ Len(words) <= cfg.max_name_words
           /\ \A w \in 1..Len(words) :
                  IsAlphaChar(words[w][1]) => IsUpperChar(words[w][1])
           /\ is_valid_name2(potential_name, cfg.min_name_length, cfg.max_name_words)
        THEN <<potential_name>>
        ELSE <<>>

RECURSIVE FallbackTier2(_, _, _)
FallbackTier2(cfg, lines, i) ==
    IF i > Min(Len(lines), FallbackWindow) THEN <<>>
    ELSE IF FallbackLine2(cfg, lines[i]) # <<>> THEN FallbackLine2(cfg, lines[i])
    ELSE FallbackTier2(cfg, lines, i + 1)

\* tier "none" stands for the sentinel "Name not found"
extract_customer_name2(cfg, text) ==
    LET lines == SplitLines(text)
        t1 == KeywordTier2(cfg, KeywordList(cfg, text), lines, 1, 1)
        t2 == FallbackTier2(cfg, lines, 1)
    IN  IF t1 # <<>> THEN [tier |-> "keyword", name |-> t1[1]]
        ELSE IF t2 # <<>> THEN [tier |-> "fallback", name |-> t2[1]]
        ELSE NoName

----------------------------------------------------------------------------
(* main.py: file names, the directory, rename_file's name scheme           *)

\* str.title(): a letter after a letter is lowercased, any other letter
\* is uppercased
Title(s) ==
    [i \in 1..Len(s) |->
        IF ~IsAlphaChar(s[i]) THEN s[i]
        ELSE IF i > 1 /\ IsAlphaChar(s[i - 1]) THEN LowerChar(s[i])
        ELSE UpperChar(s[i])]

\* safe_name = customer_name.title().replace(' ', '_'), then
\* re.sub(r'[^\w\s-]', '', safe_name)
SafeName(customer_name) ==
    SelectSeq(ReplaceChar(Title(customer_name), " ", "_"),
              LAMBDA c : IsWordChar(c) \/ c \in WhiteSpace \/ c = "-")

\* os.path.splitext(file_path)[1]: from the last dot on, when that dot is
\* not the first character of the name
Extension(name) ==
    LET dots == {i \in 2..Len(name) : name[i] = "."}
    IN  IF dots = {} THEN <<>>
        ELSE SubSeq(name, CHOOSE i \in dots : \A j \in dots : i >= j, Len(name))

\* str(counter)
RECURSIVE Decimal(_)
Decimal(n) ==
    IF n < 10 THEN <<CHOOSE d \in Digits : d = ToString(n)>>
    ELSE Decimal(n \div 10) \o Decimal(n % 10)

ReceiptSuffix == <<"_","r","e","c","e","i","p","t">>

\* the numbered name is formatted after the counter was incremented
NewFilenameIncrementFirst(customer_name, file_name, c) ==
    IF c = 1
    THEN SafeName(customer_name) \o ReceiptSuffix \o Extension(file_name)
    ELSE SafeName(customer_name) \o ReceiptSuffix \o <<"_">> \o Decimal(c)
             \o Extension(file_name)

\* the new_filename rename_file holds when its counter variable is c:
\* the base name while c = 1, the name numbered c - 1 afterwards
NewFilename(customer_name, file_name, c) ==
    IF c = 1
    THEN SafeName(customer_name) \o ReceiptSuffix \o Extension(file_name)
    ELSE SafeName(customer_name) \o ReceiptSuffix \o <<"_">> \o Decimal(c - 1)
             \o Extension(file_name)

Gone == <<>>

CaseInsensitiveFS == platform \in {"macos", "windows"}
CaseInsensitiveGlob == platform = "windows"
RenameReplaces == platform \in {"linux", "macos"}

\* two names denote the same directory entry
SameName(a, b) == a = b \/ (CaseInsensitiveFS /\ Lower(a) = Lower(b))

\* os.path.exists(os.path.join(directory, name))
Exists(dir, name) ==
    \E id \in DOMAIN dir : dir[id] # Gone /\ SameName(dir[id], name)

\* the file a path leads to, 0 when there is none
FileAt(dir, name) ==
    IF Exists(dir, name)
    THEN CHOOSE id \in DOMAIN dir : dir[id] # Gone /\ SameName(dir[id], name)
    ELSE 0

\* os.rename(src, dst) when it does not raise: the file at src gets the
\* name dst, a file that had that name is replaced
Renamed(dir, src, dst) ==
    [id \in DOMAIN dir |->
        IF id = FileAt(dir, src) THEN dst
        ELSE IF dir[id] # Gone /\ SameName(dir[id], dst) THEN Gone
        ELSE dir[id]]

\* os.rename(src, dst) has to raise: no source, or a target in the way on
\* a platform that refuses to replace it
RenameMustRaise(dir, src, dst) ==
    \/ ~Exists(dir, src)
    \/ (~RenameReplaces /\ Exists(dir, dst) /\ FileAt(dir, dst) # FileAt(dir, src))

supported_formats ==
    << <<".","j","p","g">>, <<".","j","p","e","g">>, <<".","p","n","g">>,
       <<".","p","d","f">>, <<".","J","P","G">>, <<".","J","P","E","G">>,
       <<".","P","N","G">>, <<".","P","D","F">> >>

\* the name ends with the suffix
EndsWith(name, suffix) ==
    /\ Len(name) >= Len(suffix)
    /\ SubSeq(name, Len(name) - Len(suffix) + 1, Len(name)) = suffix

\* folder.glob(f'*{ext}') matches the name
GlobMatches(name, ext) ==
    IF CaseInsensitiveGlob THEN EndsWith(Lower(name), Lower(ext))
    ELSE EndsWith(name, ext)

----------------------------------------------------------------------------
(* Inputs of the extraction runs: configurations and OCR texts             *)

MaxParts == 3
MaxLines == 2

\* pieces an OCR line is put together from
LineParts ==
    { <<"A","l">>, <<"B","o","b">>, <<" ">>, <<" ","."," ">>, <<"F","r","o","m">> }

RECURSIVE PartsUpTo(_)
PartsUpTo(n) ==
    IF n = 0 THEN {<<>>}
    ELSE LET shorter == PartsUpTo(n - 1)
         IN  shorter \cup {l \o p : l \in shorter, p \in LineParts}

LinePool == PartsUpTo(MaxParts)

RECURSIVE TextsUpTo(_)
TextsUpTo(n) ==
    IF n = 0 THEN {<<>>}
    ELSE LET shorter == TextsUpTo(n - 1)
         IN  shorter \cup {Append(t, l) : t \in shorter, l \in LinePool}

TextPool == TextsUpTo(MaxLines)

KeywordChoices == { << <<"f","r","o","m">> >> }
ExcludedChoices == { <<>>, << <<"B","o">> >> }
MinLengthChoices == {3, 6}
MaxWordsChoices == {1, 5}

\* the banks mapping in iteration order; a missing 'keywords' or 'app_names'
\* entry reads as the empty list (bank_config.get(..., []))
BankChoices ==
    { <<>>,
      << [name |-> "Bank", keywords |-> << <<"a","l">> >>, app_names |-> <<>>] >> }

ConfigPool ==
    [name_keywords : KeywordChoices, banks : BankChoices,
     excluded_words : ExcludedChoices,
     min_name_length : MinLengthChoices, max_name_words : MaxWordsChoices]

NoSummary == [total |-> 0, success |-> 0, no_name |-> 0, errors |-> 0,
              rename_failed |-> 0, printed |-> FALSE]

\* process_receipts_bulk was not called
NoBulk == [yields |-> <<>>, run |-> 0, before |-> <<>>, raised |-> FALSE]

\* the orchestrator before anything was enumerated
BatchIdle ==
    /\ bulk = NoBulk
    /\ gext = 1
    /\ yielded = {}
    /\ enumerated = <<>>
    /\ files = <<>>
    /\ seen_files = {}
    /\ task = <<>>
    /\ results = <<>>
    /\ failed = <<>>
    /\ summary = NoSummary
    /\ hist = <<>>

----------------------------------------------------------------------------
(* Extraction runs of main.py                                              *)

InitName ==
    /\ config \in ConfigPool
    /\ text_lines \in TextPool
    /\ name_result = NoName
    /\ detected_bank = 0
    /\ xpc = "input"
    /\ platform = "linux"
    /\ max_workers = 1
    /\ origName = <<>>
    /\ dirName = <<>>
    /\ ppc = "idle"
    /\ BatchIdle

\* process_single_file's call of extract_customer_name on the lines
ExtractName ==
    /\ xpc = "input"
    /\ detected_bank' = detect_bank(config, JoinLines(text_lines))
    /\ name_result' = extract_customer_name(config, text_lines)
    /\ xpc' = "done"
    /\ UNCHANGED <<config, text_lines, bvars, kvars>>

NextName == ExtractName

SpecName == InitName /\ [][NextName]_vars

----------------------------------------------------------------------------
(* Extraction runs of main2.py                                             *)

\* process_receipts_bulk's call of extract_customer_name on the OCR text
ExtractName2 ==
    /\ xpc = "input"
    /\ detected_bank' = detect_bank2(config, JoinLines(text_lines))
    /\ name_result' = extract_customer_name2(config, JoinLines(text_lines))
    /\ xpc' = "done"
    /\ UNCHANGED <<config, text_lines, bvars, kvars>>

NextName2 == ExtractName2

SpecName2 == InitName /\ [][NextName2]_vars

----------------------------------------------------------------------------
(* Receipts and configurations of the documented scenarios                 *)

\* lines of receipt text
\* "Receive From: MARY LEE"
ReceiveFromMaryLee ==
    << "R", "e", "c", "e", "i", "v", "e", " ", "F", "r", "o", "m", ":", " ",
       "M", "A", "R", "Y", " ", "L", "E", "E" >>

\* "Transfer To"
TransferTo ==
    << "T", "r", "a", "n", "s", "f", "e", "r", " ", "T", "o" >>

\* "JOHN TAN WEI MING"
JohnTanWeiMing ==
    << "J", "O", "H", "N", " ", "T", "A", "N", " ", "W", "E", "I", " ", "M",
       "I", "N", "G" >>

\* "RM50.00"
Amount ==
    << "R", "M", "5", "0", ".", "0", "0" >>

\* "Transaction Details"
TransactionDetails ==
    << "T", "r", "a", "n", "s", "a", "c", "t", "i", "o", "n", " ", "D", "e",
       "t", "a", "i", "l", "s" >>

\* "Balance: RM0.00"
BalanceLine ==
    << "B", "a", "l", "a", "n", "c", "e", ":", " ", "R", "M", "0", ".", "0",
       "0" >>

\* "Date: 2024-01-01"
DateLine ==
    << "D", "a", "t", "e", ":", " ", "2", "0", "2", "4", "-", "0", "1", "-",
       "0", "1" >>

\* "From Al Bob"
FromAlBob ==
    << "F", "r", "o", "m", " ", "A", "l", " ", "B", "o", "b" >>

\* "To Bob Al"
ToBobAl ==
    << "T", "o", " ", "B", "o", "b", " ", "A", "l" >>

\* "CIMB Clicks"
CimbClicks ==
    << "C", "I", "M", "B", " ", "C", "l", "i", "c", "k", "s" >>

\* "Al B"
ShortName ==
    << "A", "l", " ", "B" >>

\* keywords, app names, excluded words and names as written in a configuration
\* or a report
\* "receive from"
KwReceiveFrom ==
    << "r", "e", "c", "e", "i", "v", "e", " ", "f", "r", "o", "m" >>

\* "transfer to"
KwTransferTo ==
    << "t", "r", "a", "n", "s", "f", "e", "r", " ", "t", "o" >>

\* "to"
KwTo ==
    << "t", "o" >>

\* "from"
KwFrom ==
    << "f", "r", "o", "m" >>

\* "From"
KwFromCapital ==
    << "F", "r", "o", "m" >>

\* "Transfer To"
KwTransferToCapital ==
    << "T", "r", "a", "n", "s", "f", "e", "r", " ", "T", "o" >>

\* "CIMB Clicks"
AppCimbClicks ==
    << "C", "I", "M", "B", " ", "C", "l", "i", "c", "k", "s" >>

\* "details"
ExDetails ==
    << "d", "e", "t", "a", "i", "l", "s" >>

\* "transaction"
ExTransaction ==
    << "t", "r", "a", "n", "s", "a", "c", "t", "i", "o", "n" >>

\* "Mary Lee"
MaryLee ==
    << "M", "a", "r", "y", " ", "L", "e", "e" >>

\* "John Tan Wei Ming"
JohnTanWeiMingTitle ==
    << "J", "o", "h", "n", " ", "T", "a", "n", " ", "W", "e", "i", " ", "M",
       "i", "n", "g" >>

MaxScenarioLines == 3

ScenarioLines ==
    { ReceiveFromMaryLee, TransferTo, JohnTanWeiMing, Amount, TransactionDetails,
      BalanceLine, DateLine, FromAlBob, ToBobAl, CimbClicks }

\* the receipts of up to MaxScenarioLines lines
RECURSIVE ScenarioTextsUpTo(_)
ScenarioTextsUpTo(n) ==
    IF n = 0 THEN {<<>>}
    ELSE LET shorter == ScenarioTextsUpTo(n - 1)
         IN  shorter \cup {Append(t, l) : t \in shorter, l \in ScenarioLines}

\* long receipts: n lines of one kind of filler, a name-like line at up to two
\* of the positions around the tenth line
LongLengths == {11, 12, 33, 36}
NamePositions == {1, 10, 11, 12}
Fillers == {Amount, ShortName}

LongText(n, P, filler) ==
    [i \in 1..n |->
        IF i \notin P THEN filler
        ELSE IF \A j \in P : i <= j THEN JohnTanWeiMing ELSE ToBobAl]

LongTexts ==
    { LongText(n, P, filler) :
        n \in LongLengths,
        P \in {Q \in SUBSET NamePositions : Cardinality(Q) <= 2},
        filler \in Fillers }

ScenarioTexts == ScenarioTextsUpTo(MaxScenarioLines) \cup LongTexts

\* bank profiles: one without an 'app_names' entry, one without 'keywords'
Maybank == [name |-> "Maybank", keywords |-> << KwTransferToCapital >>]
Cimb == [name |-> "CIMB", app_names |-> << AppCimbClicks >>]

ScenarioConfigs ==
    { [name_keywords |-> << KwReceiveFrom, KwTransferTo >>, banks |-> <<>>,
       excluded_words |-> << ExDetails, ExTransaction >>,
       min_name_length |-> 3, max_name_words |-> 5],
      [name_keywords |-> << KwTo, KwFrom >>, banks |-> <<>>,
       excluded_words |-> << ExDetails, ExTransaction >>,
       min_name_length |-> 6, max_name_words |-> 5],
      [name_keywords |-> << KwFromCapital >>, banks |-> << Maybank, Cimb >>,
       excluded_words |-> << ExDetails, ExTransaction >>,
       min_name_length |-> 3, max_name_words |-> 5],
      [name_keywords |-> << KwFrom >>, banks |-> << Cimb, Maybank >>,
       excluded_words |-> << ExDetails, ExTransaction >>,
       min_name_length |-> 3, max_name_words |-> 2] }

InitScenario ==
    /\ config \in ScenarioConfigs
    /\ text_lines \in ScenarioTexts
    /\ name_result = NoName
    /\ detected_bank = 0
    /\ xpc = "input"
    /\ platform = "linux"
    /\ max_workers = 1
    /\ origName = <<>>
    /\ dirName = <<>>
    /\ ppc = "idle"
    /\ BatchIdle

\* main.py on the scenario receipts
SpecScenario == InitScenario /\ [][NextName]_vars

\* main2.py on the scenario receipts
SpecScenario2 == InitScenario /\ [][NextName2]_vars

\* either program on the scenario receipts
NextEither == ExtractName \/ ExtractName2

SpecEither == InitScenario /\ [][NextEither]_vars

----------------------------------------------------------------------------
(* The batch of main.py: inputs                                            *)

MaxFiles == 2

\* names a receipts folder may hold when a batch begins
NamePool ==
    << <<"r",".","j","p","g">>,
       <<"R",".","J","P","G">>,
       <<"b",".","j","p","g">>,
       <<"A","l","_","B","o","b","_","r","e","c","e","i","p","t",".","j","p","g">> >>

\* names a folder may hold when only the enumeration is looked at
EnumNamePool ==
    << <<"r",".","j","p","g">>,
       <<"R",".","j","p","g">>,
       <<"R",".","J","P","G">>,
       <<"b",".","p","n","g">>,
       <<"a",".","J","p","g">>,
       <<"n",".","t","x","t">> >>

\* the folders: up to MaxFiles names of a pool, listed in pool order
Directories(pool) ==
    { SelectSeq(pool, LAMBDA n : n \in S) :
        S \in {T \in SUBSET {pool[k] : k \in 1..Len(pool)} :
                  Cardinality(T) <= MaxFiles} }

\* no two entries of a folder are the same name to the file system
ValidDirectory(dir) ==
    \A i, j \in DOMAIN dir : i # j => ~SameName(dir[i], dir[j])

\* what the Text Source Adapter may return for a file; <<>> is "no lines",
\* which is also what extract_text_from_image returns when the OCR call raises
OcrOutcomes ==
    { <<>>,
      << <<"F","r","o","m">>, <<"A","l"," ","B","o","b">> >>,
      << <<"1">> >> }

\* what the user may type at "Enter customer name", stripped
ManualNames == { <<>>, <<"a","l"," ","b","o","b">> }

WorkerChoices == {1, 2}

BatchConfig ==
    [name_keywords |-> << <<"f","r","o","m">> >>, banks |-> <<>>,
     excluded_words |-> <<>>, min_name_length |-> 3, max_name_words |-> 5]

\* extract_customer_name on each text the adapter may return, under the
\* configuration of the batch
ExtractedName ==
    [lines \in OcrOutcomes |-> extract_customer_name(BatchConfig, lines)]

----------------------------------------------------------------------------
(* The batch of main.py: process_folder                                    *)

NoRecord ==
    [original_file |-> <<>>, status |-> "", customer_name |-> <<>>,
     new_filename |-> <<>>, error |-> ""]

Record(file, status, customer_name, new_filename, error) ==
    [original_file |-> file, status |-> status, customer_name |-> customer_name,
     new_filename |-> new_filename, error |-> error]

NewTask == [pc |-> "queued", customer_name |-> <<>>, counter |-> 0, ret |-> NoRecord]

\* ocr_calls: calls of extract_text_from_image; ocr_empty: the call of
\* process_single_file got no lines; extracts, rename_files, os_renames: calls
\* of extract_customer_name, rename_file and os.rename made by
\* process_single_file; rename_raised: that os.rename raised; manual_renames:
\* calls of rename_file made by the interactive pass
NewHist ==
    [ocr_calls |-> 0, ocr_empty |-> FALSE, extracts |-> 0, rename_files |-> 0,
     os_renames |-> 0, rename_raised |-> FALSE, manual_renames |-> 0]

\* a file without text falls through to "no name found"
NoTextAsNoName(file) == Record(file, "no_name_found", <<>>, <<>>, "")

\* the record of "if not text_lines"
NoTextRecord(file) == Record(file, "error", <<>>, <<>>, "No text extracted")

\* the record of the except clause of process_single_file
ExceptionRecord(file) == Record(file, "error", <<>>, <<>>, "exception")

\* the record of "else" after "if customer_name"
NoNameRecord(file) == Record(file, "no_name_found", <<>>, <<>>, "")

\* the failed rename loses the extracted name
RenameFailedWithoutName(file, customer_name) ==
    Record(file, "rename_failed", <<>>, <<>>, "")

\* the record built when rename_file returned False
RenameFailedRecord(file, customer_name) ==
    Record(file, "rename_failed", customer_name, <<>>, "")

\* the record built when rename_file returned the new file name
SuccessRecord(file, customer_name, new_filename) ==
    Record(file, "success", customer_name, new_filename, "")

\* the key keeps the letter case of the name
FileKeyExact(name) == name

\* file_key = file_path.name.lower()
FileKey(name) == Lower(name)

Init ==
    /\ config = BatchConfig
    /\ text_lines = <<>>
    /\ name_result = NoName
    /\ detected_bank = 0
    /\ xpc = "batch"
    /\ platform \in {"linux", "macos", "windows"}
    /\ max_workers \in WorkerChoices
    /\ origName \in Directories(NamePool)
    /\ ValidDirectory(origName)
    /\ dirName = origName
    /\ ppc = "enumerate"
    /\ BatchIdle

NFormats == Len(supported_formats)

\* one file_path of "for file_path in folder.glob(f'*{ext}')" and the body of
\* the loop for it
GlobYield ==
    /\ ppc = "enumerate"
    /\ gext <= NFormats
    /\ \E id \in DOMAIN dirName \ yielded :
        /\ GlobMatches(dirName[id], supported_formats[gext])
        /\ yielded' = yielded \cup {id}
        /\ enumerated' = Append(enumerated, dirName[id])
        /\ LET file_key == FileKey(dirName[id])
           IN  IF file_key \notin seen_files
               THEN /\ files' = Append(files, dirName[id])
                    /\ seen_files' = seen_files \cup {file_key}
               ELSE UNCHANGED <<files, seen_files>>
    /\ UNCHANGED <<xvars, kvars, platform, max_workers, origName, dirName,
                   gext, ppc, task, results, failed, summary, hist>>

\* the glob of one pattern is exhausted: on to the next pattern
GlobExhausted ==
    /\ ppc = "enumerate"
    /\ gext <= NFormats
    /\ \A id \in DOMAIN dirName \ yielded :
           ~GlobMatches(dirName[id], supported_formats[gext])
    /\ gext' = gext + 1
    /\ yielded' = {}
    /\ UNCHANGED <<xvars, kvars, platform, max_workers, origName, dirName,
                   enumerated, files, seen_files, ppc, task, results, failed,
                   summary, hist>>

\* "if not files: return []"
NoFilesFound ==
    /\ ppc = "enumerate"
    /\ gext > NFormats
    /\ files = <<>>
    /\ ppc' = "returned"
    /\ UNCHANGED <<xvars, kvars, platform, max_workers, origName, dirName,
                   gext, yielded, enumerated, files, seen_files, task, results,
                   failed, summary, hist>>

\* "self.results = []" and, with several workers, the submission of every
\* file to the pool
BeginProcessing ==
    /\ ppc = "enumerate"
    /\ gext > NFormats
    /\ files # <<>>
    /\ results' = <<>>
    /\ task' = [i \in 1..Len(files) |-> NewTask]
    /\ hist' = [i \in 1..Len(files) |-> NewHist]
    /\ ppc' = "process"
    /\ UNCHANGED <<xvars, kvars, platform, max_workers, origName, dirName,
                   gext, yielded, enumerated, files, seen_files, failed, summary>>

\* files whose process_single_file call is running in the pool
Running == {i \in DOMAIN task : task[i].pc \in {"probe", "rename"}}

\* the call for file i may begin: in the sequential loop when the record of
\* the file before it was appended; in the pool when the files submitted
\* before it have begun and a worker is idle
MayStart(i) ==
    IF max_workers = 1
    THEN i = Len(results) + 1
    ELSE /\ \A j \in 1..(i - 1) : task[j].pc # "queued"
         /\ Cardinality(Running) < max_workers

\* process_single_file up to the first os.path.exists of rename_file, or to
\* its return when it does not get that far
StartFile(i) ==
    /\ ppc = "process"
    /\ task[i].pc = "queued"
    /\ MayStart(i)
    /\ \E lines \in OcrOutcomes, raises \in BOOLEAN :
        LET found == ExtractedName[lines]
        IN  \/ /\ lines = <<>>
               /\ ~raises
               /\ task' = [task EXCEPT ![i].pc = "done",
                              ![i].ret = NoTextRecord(files[i])]
               /\ hist' = [hist EXCEPT ![i].ocr_calls = @ + 1,
                              ![i].ocr_empty = TRUE]
            \/ /\ lines # <<>>
               /\ raises
               /\ task' = [task EXCEPT ![i].pc = "done",
                              ![i].ret = ExceptionRecord(files[i])]
               /\ hist' = [hist EXCEPT ![i].ocr_calls = @ + 1,
                              ![i].extracts = @ + 1]
            \/ /\ lines # <<>>
               /\ ~raises
               /\ found.name = <<>>
               /\ task' = [task EXCEPT ![i].pc = "done",
                              ![i].ret = NoNameRecord(files[i])]
               /\ hist' = [hist EXCEPT ![i].ocr_calls = @ + 1,
                              ![i].extracts = @ + 1]
            \/ /\ lines # <<>>
               /\ ~raises
               /\ found.name # <<>>
               /\ task' = [task EXCEPT ![i].pc = "probe",
                              ![i].customer_name = found.name,
                              ![i].counter = 1]
               /\ hist' = [hist EXCEPT ![i].ocr_calls = @ + 1,
                              ![i].extracts = @ + 1,
                              ![i].rename_files = @ + 1]
    /\ UNCHANGED <<xvars, kvars, platform, max_workers, origName, dirName,
                   gext, yielded, enumerated, files, seen_files, ppc, results,
                   failed, summary>>

\* the new_path rename_file holds for file i
NewPath(i) == NewFilename(task[i].customer_name, files[i], task[i].counter)

\* the probe takes the file's own name for free, as
\* "new_path.exists() and new_path != image_file" does
ProbeFileSparingSelf(i) ==
    /\ ppc = "process"
    /\ task[i].pc = "probe"
    /\ IF /\ Exists(dirName, NewPath(i))
          /\ FileAt(dirName, NewPath(i)) # FileAt(dirName, files[i])
       THEN task' = [task EXCEPT ![i].counter = @ + 1]
       ELSE task' = [task EXCEPT ![i].pc = "rename"]
    /\ UNCHANGED <<xvars, kvars, platform, max_workers, origName, dirName,
                   gext, yielded, enumerated, files, seen_files, ppc, results,
                   failed, summary, hist>>

\* one evaluation of "while os.path.exists(new_path)" and, when it is true,
\* the loop body
ProbeFile(i) ==
    /\ ppc = "process"
    /\ task[i].pc = "probe"
    /\ IF Exists(dirName, NewPath(i))
       THEN task' = [task EXCEPT ![i].counter = @ + 1]
       ELSE task' = [task EXCEPT ![i].pc = "rename"]
    /\ UNCHANGED <<xvars, kvars, platform, max_workers, origName, dirName,
                   gext, yielded, enumerated, files, seen_files, ppc, results,
                   failed, summary, hist>>

\* os.rename(file_path, new_path), what rename_file returns and the record
\* process_single_file builds from it
RenameFile(i) ==
    /\ ppc = "process"
    /\ task[i].pc = "rename"
    /\ \E raises \in BOOLEAN :
        IF raises \/ RenameMustRaise(dirName, files[i], NewPath(i))
        THEN /\ task' = [task EXCEPT ![i].pc = "done",
                            ![i].ret = RenameFailedRecord(files[i],
                                                          task[i].customer_name)]
             /\ hist' = [hist EXCEPT ![i].os_renames = @ + 1,
                            ![i].rename_raised = TRUE]
             /\ UNCHANGED dirName
        ELSE /\ task' = [task EXCEPT ![i].pc = "done",
                            ![i].ret = SuccessRecord(files[i],
                                                     task[i].customer_name,
                                                     NewPath(i))]
             /\ hist' = [hist EXCEPT ![i].os_renames = @ + 1]
             /\ dirName' = Renamed(dirName, files[i], NewPath(i))
    /\ UNCHANGED <<xvars, kvars, platform, max_workers, origName, gext,
                   yielded, enumerated, files, seen_files, ppc, results, failed,
                   summary>>

\* every future is taken for the first file's
ReturnedRecordOfFirst(i) == task[1].ret

\* result = self.process_single_file(...) / result = future.result()
ReturnedRecord(i) == task[i].ret

\* self.results.append(result): right after the call in the sequential loop,
\* in completion order in the as_completed loop
AppendResult(i) ==
    /\ ppc = "process"
    /\ task[i].pc = "done"
    /\ results' = Append(results, ReturnedRecord(i))
    /\ task' = [task EXCEPT ![i].pc = "collected"]
    /\ UNCHANGED <<xvars, kvars, platform, max_workers, origName, dirName,
                   gext, yielded, enumerated, files, seen_files, ppc, failed,
                   summary, hist>>

CountStatus(rs, status) == Cardinality({r \in DOMAIN rs : rs[r].status = status})

\* the counts save_report prints
Summarize(rs) ==
    [total |-> Len(rs),
     success |-> CountStatus(rs, "success"),
     no_name |-> CountStatus(rs, "no_name_found"),
     errors |-> CountStatus(rs, "error"),
     rename_failed |-> CountStatus(rs, "rename_failed"),
     printed |-> TRUE]

\* self.save_report(folder_path); return self.results
FinishProcessFolder ==
    /\ ppc = "process"
    /\ \A i \in DOMAIN task : task[i].pc = "collected"
    /\ summary' = Summarize(results)
    /\ ppc' = "returned"
    /\ UNCHANGED <<xvars, kvars, platform, max_workers, origName, dirName,
                   gext, yielded, enumerated, files, seen_files, task, results,
                   failed, hist>>

\* the target rename_file settles on when nothing else runs: the counter at
\* which its probe loop ends
RECURSIVE FreeCounter(_, _, _, _)
FreeCounter(dir, customer_name, file_name, c) ==
    IF Exists(dir, NewFilename(customer_name, file_name, c))
    THEN FreeCounter(dir, customer_name, file_name, c + 1)
    ELSE c

\* index in files of the file a record is about
TaskOf(name) == CHOOSE i \in DOMAIN files : files[i] = name

\* process_folder_interactive after its process_folder call returned:
\* "failed = [r for r in results if r['status'] in ['no_name_found', 'error']]"
\* and the return when there is none
StartReview ==
    /\ ppc = "returned"
    /\ LET idx == {r \in DOMAIN results :
                      results[r].status \in {"no_name_found", "error"}}
           F[n \in 0..Len(results)] ==
               IF n = 0 THEN <<>>
               ELSE IF n \in idx THEN Append(F[n - 1], n) ELSE F[n - 1]
       IN  /\ failed' = F[Len(results)]
           /\ ppc' = IF idx = {} THEN "finished" ELSE "ask"
    /\ UNCHANGED <<xvars, kvars, platform, max_workers, origName, dirName, gext,
                   yielded, enumerated, files, seen_files, task, results,
                   summary, hist>>

\* the answer to "Do you want to manually review failed receipts?"
AnswerPrompt ==
    /\ ppc = "ask"
    /\ \E yes \in BOOLEAN : ppc' = IF yes THEN "review" ELSE "finished"
    /\ UNCHANGED <<xvars, kvars, platform, max_workers, origName, dirName, gext,
                   yielded, enumerated, files, seen_files, task, results,
                   failed, summary, hist>>

\* one iteration of "for i, result in enumerate(failed, 1)": the exists check,
\* the OCR call, the prompt for a name, rename_file and the update of the record
ReviewFile ==
    /\ ppc = "review"
    /\ failed # <<>>
    /\ LET r == Head(failed)
           original_file == results[r].original_file
           i == TaskOf(original_file)
       IN  \/ /\ ~Exists(dirName, original_file)
              /\ UNCHANGED <<dirName, results, hist>>
           \/ /\ Exists(dirName, original_file)
              /\ \E customer_name \in ManualNames, raises \in BOOLEAN :
                  LET c == FreeCounter(dirName, customer_name, original_file, 1)
                      new_filename == NewFilename(customer_name, original_file, c)
                  IN  \/ /\ customer_name = <<>>
                         /\ ~raises
                         /\ hist' = [hist EXCEPT ![i].ocr_calls = @ + 1]
                         /\ UNCHANGED <<dirName, results>>
                      \/ /\ customer_name # <<>>
                         /\ raises \/ RenameMustRaise(dirName, original_file, new_filename)
                         /\ hist' = [hist EXCEPT ![i].ocr_calls = @ + 1,
                                        ![i].manual_renames = @ + 1]
                         /\ UNCHANGED <<dirName, results>>
                      \/ /\ customer_name # <<>>
                         /\ ~raises
                         /\ ~RenameMustRaise(dirName, original_file, new_filename)
                         /\ hist' = [hist EXCEPT ![i].ocr_calls = @ + 1,
                                        ![i].manual_renames = @ + 1]
                         /\ dirName' = Renamed(dirName, original_file, new_filename)
                         /\ results' = [results EXCEPT
                                           ![r].customer_name = customer_name,
                                           ![r].new_filename = new_filename,
                                           ![r].status = "success_manual"]
    /\ failed' = Tail(failed)
    /\ UNCHANGED <<xvars, kvars, platform, max_workers, origName, gext, yielded,
                   enumerated, files, seen_files, ppc, task, summary>>

\* after the loop: self.save_report(folder_path); return self.results
FinishReview ==
    /\ ppc = "review"
    /\ failed = <<>>
    /\ summary' = Summarize(results)
    /\ ppc' = "finished"
    /\ UNCHANGED <<xvars, kvars, platform, max_workers, origName, dirName, gext,
                   yielded, enumerated, files, seen_files, task, results,
                   failed, hist>>

Next ==
    \/ StartReview
    \/ AnswerPrompt
    \/ ReviewFile
    \/ FinishReview
    \/ GlobYield
    \/ GlobExhausted
    \/ NoFilesFound
    \/ BeginProcessing
    \/ \E i \in DOMAIN task : StartFile(i)
    \/ \E i \in DOMAIN task : ProbeFile(i)
    \/ \E i \in DOMAIN task : RenameFile(i)
    \/ \E i \in DOMAIN task : AppendResult(i)
    \/ FinishProcessFolder

Spec == Init /\ [][Next]_vars

----------------------------------------------------------------------------
(* The enumeration of process_folder alone, over more kinds of folders     *)

InitEnum ==
    /\ config = BatchConfig
    /\ text_lines = <<>>
    /\ name_result = NoName
    /\ detected_bank = 0
    /\ xpc = "batch"
    /\ platform \in {"linux", "macos", "windows"}
    /\ max_workers \in WorkerChoices
    /\ origName \in Directories(EnumNamePool)
    /\ ValidDirectory(origName)
    /\ dirName = origName
    /\ ppc = "enumerate"
    /\ BatchIdle

NextEnum ==
    \/ GlobYield
    \/ GlobExhausted
    \/ NoFilesFound
    \/ BeginProcessing

SpecEnum == InitEnum /\ [][NextEnum]_vars

----------------------------------------------------------------------------
(* Claims about main.py's extract_customer_name                            *)

\* line i of the text gets as far as the cleaning step of the keyword tier:
\* no earlier line returned, a keyword matched, and the next line is a
\* non-empty candidate that is alphabetic without its spaces and dots
ReachesCleaning(cfg, lines, i) ==
    /\ i + 1 <= Len(lines)
    /\ \A j \in 1..(i - 1) : ~KeywordAccepts(cfg, lines, j)
    /\ MatchedKeyword(cfg, lines[i]) # <<>>
    /\ PotentialName(lines, i) # <<>>
    /\ IsAlpha(RemoveChar(RemoveChar(PotentialName(lines, i), " "), "."))

\* C3: every name extract_customer_name returns (keyword tier or fallback
\* tier) is longer than min_name_length, has at most max_name_words words,
\* has a letter, and contains no excluded word as a case-insensitive
\* substring.
C3_ReturnedNamePassesGate ==
    (xpc = "done" /\ name_result.tier # "none") =>
        /\ Len(name_result.name) > config.min_name_length
        /\ Len(Split(name_result.name)) <= config.max_name_words
        /\ \E i \in 1..Len(name_result.name) : IsAlphaChar(name_result.name[i])
        /\ \A k \in 1..Len(config.excluded_words) :
               ~Contains(Lower(config.excluded_words[k]), Lower(name_result.name))

\* C7: cleaning a cleaned candidate again gives the same string, for every
\* candidate that reaches the cleaning step of the keyword tier.
C7_CleaningIdempotent ==
    xpc = "done" =>
        \A i \in 1..Len(text_lines) :
            ReachesCleaning(config, text_lines, i) =>
                CleanName(CleanName(PotentialName(text_lines, i)))
                    = CleanName(PotentialName(text_lines, i))

\* the keyword tier alone enforces the whole gate
KeywordTierNamePassesGate ==
    (xpc = "done" /\ name_result.tier = "keyword") =>
        /\ Len(name_result.name) > config.min_name_length
        /\ Len(Split(name_result.name)) <= config.max_name_words
        /\ \E i \in 1..Len(name_result.name) : IsAlphaChar(name_result.name[i])
        /\ ~HasExcluded(config, name_result.name)

\* the fallback tier enforces the gate except for the length bound, for
\* which it has the fixed bound of six characters
FallbackNamePassesAllButLength ==
    (xpc = "done" /\ name_result.tier = "fallback") =>
        /\ Len(name_result.name) >= ShortLine
        /\ Len(Split(name_result.name)) <= config.max_name_words
        /\ \E i \in 1..Len(name_result.name) : IsAlphaChar(name_result.name[i])
        /\ ~HasExcluded(config, name_result.name)

----------------------------------------------------------------------------
(* Claims about main2.py's extract_customer_name                           *)

\* C4: every name main2.py's extract_customer_name returns, other than the
\* sentinel "Name not found", is longer than min_name_length, has at most
\* max_name_words words, has a letter, and contains no excluded word as a
\* substring of its lowercased form.
C4_ReturnedNamePassesGate2 ==
    (xpc = "done" /\ name_result.tier # "none") =>
        /\ Len(name_result.name) > config.min_name_length
        /\ Len(Split(name_result.name)) <= config.max_name_words
        /\ \E i \in 1..Len(name_result.name) : IsAlphaChar(name_result.name[i])
        /\ \A k \in 1..Len(config.excluded_words) :
               ~Contains(Lower(config.excluded_words[k]), Lower(name_result.name))

\* what main2.py's gate does guarantee: length at least min_name_length,
\* the word bound, a letter, and no word equal to an excluded word
Names2PassWeakGate ==
    (xpc = "done" /\ name_result.tier # "none") =>
        /\ Len(name_result.name) >= config.min_name_length
        /\ Len(Split(name_result.name)) <= config.max_name_words
        /\ \E i \in 1..Len(name_result.name) : IsAlphaChar(name_result.name[i])
        /\ \A w \in 1..Len(Split(name_result.name)) :
               Lower(Split(name_result.name)[w]) \notin LoweredExcluded(config)

\* main2.py breaks the strict length bound on its own
Names2StrictLength ==
    (xpc = "done" /\ name_result.tier # "none") =>
        Len(name_result.name) > config.min_name_length

\* main2.py breaks the substring exclusion on its own
Names2NoExcludedSubstring ==
    (xpc = "done" /\ name_result.tier # "none") =>
        \A k \in 1..Len(config.excluded_words) :
            ~Contains(Lower(config.excluded_words[k]), Lower(name_result.name))

----------------------------------------------------------------------------
(* Claims about the batch of main.py                                       *)

StatusSet == {"success", "no_name_found", "rename_failed", "error"}

\* the file of the folder that process_single_file call i was given
FileOf(i) == CHOOSE id \in DOMAIN origName : origName[id] = files[i]

\* process_folder has returned a non-empty result
Returned == ppc \in {"returned", "ask", "review", "finished"} /\ files # <<>>

NoFileOverwritten == \A id \in DOMAIN dirName : dirName[id] # Gone

\* "Al_Bob_receipt": what every customer name of the batches sanitizes to,
\* followed by the fixed suffix
AlBobReceipt == <<"A","l","_","B","o","b","_","r","e","c","e","i","p","t">>
DotJpg == <<".","j","p","g">>

\* the k-th name of the numbering scheme, spelled out: k = 0 is the base name
SchemeName(k, ext) ==
    IF k = 0 THEN AlBobReceipt \o ext
    ELSE AlBobReceipt \o <<"_">> \o Decimal(k) \o ext

\* the folder held no name of the scheme when the run began
SchemeFreeAtStart ==
    \A id \in DOMAIN origName :
        ~(/\ Len(origName[id]) >= Len(AlBobReceipt)
          /\ SubSeq(Lower(origName[id]), 1, Len(AlBobReceipt)) = Lower(AlBobReceipt))

\* the records of successful renames to a name with this extension that
\* come before position r of the report
EarlierSuccesses(r, ext) ==
    {q \in 1..(r - 1) :
        /\ results[q].status = "success"
        /\ SameName(Extension(results[q].original_file), ext)}

\* C1: with more than one worker no rename overwrites a file: no file of
\* the folder is lost, every successfully renamed file still exists under
\* its new name, and distinct 'success' records carry distinct new names.
C1_ConcurrentRenameNeverOverwrites ==
    max_workers > 1 =>
        /\ NoFileOverwritten
        /\ \A i \in DOMAIN task :
               task[i].ret.status = "success" =>
                   dirName[FileOf(i)] = task[i].ret.new_filename
        /\ \A q, r \in DOMAIN results :
               (q # r /\ results[q].status = "success" /\ results[r].status = "success")
                   => results[q].new_filename # results[r].new_filename

\* C2: when rename_file calls follow one another (one worker), no file is
\* overwritten, the name a call is about to rename to is the first free one
\* of base, _1, _2, ..., a renamed file carries the name its record shows,
\* and in a folder that held no name of the scheme the successive renames
\* get the base name, then _1, then _2, ...
C2_SequentialRenamesFollowScheme ==
    max_workers = 1 =>
        /\ NoFileOverwritten
        /\ \A i \in DOMAIN task :
               task[i].pc = "rename" =>
                   \E k \in 0..Len(origName) :
                       /\ NewPath(i) = SchemeName(k, Extension(files[i]))
                       /\ ~Exists(dirName, SchemeName(k, Extension(files[i])))
                       /\ \A j \in 0..(k - 1) :
                              Exists(dirName, SchemeName(j, Extension(files[i])))
        /\ \A i \in DOMAIN task :
               task[i].ret.status = "success" =>
                   dirName[FileOf(i)] = task[i].ret.new_filename
        /\ SchemeFreeAtStart =>
               \A r \in DOMAIN results :
                   results[r].status = "success" =>
                       results[r].new_filename =
                           SchemeName(Cardinality(EarlierSuccesses(r,
                                          Extension(results[r].original_file))),
                                      Extension(results[r].original_file))

\* two files of one folder, processed one after the other with the same
\* customer name, were renamed to the base name and to _1
C2_Witness ==
    /\ max_workers = 1
    /\ ppc = "returned"
    /\ Len(results) = 2
    /\ results[1].status = "success"
    /\ results[2].status = "success"
    /\ results[1].new_filename = AlBobReceipt \o DotJpg
    /\ results[2].new_filename = AlBobReceipt \o <<"_","1">> \o DotJpg

\* the record the report holds for file i is the one its own
\* process_single_file call returned, or that record after the manual
\* review renamed the file
RecordOfPipeline(rec, i) ==
    \/ rec = task[i].ret
    \/ /\ rec.status = "success_manual"
       /\ rec.original_file = task[i].ret.original_file
       /\ task[i].ret.status \in {"no_name_found", "error"}

\* C5: once process_folder has returned, the report holds exactly one
\* record per enumerated file, each under the name of the file whose
\* pipeline produced it, whatever the worker count, the completion order
\* and the outcomes; and while files are being processed the batch can
\* always go on.
C5_OneRecordPerFile ==
    /\ Returned =>
           /\ Len(results) = Len(files)
           /\ \A i \in DOMAIN files :
                  /\ Cardinality({r \in DOMAIN results :
                                     results[r].original_file = files[i]}) = 1
                  /\ \A r \in DOMAIN results :
                         results[r].original_file = files[i] =>
                             /\ RecordOfPipeline(results[r], i)
                             /\ task[i].ret.original_file = origName[FileOf(i)]
    /\ ppc = "process" =>
           \/ \E i \in DOMAIN task : task[i].pc \in {"probe", "rename", "done"}
           \/ \E i \in DOMAIN task : task[i].pc = "queued" /\ MayStart(i)
           \/ \A i \in DOMAIN task : task[i].pc = "collected"

\* two workers, the second file's record was collected first, and a
\* pipeline that raised is in the report next to a successful one
C5_Witness ==
    /\ max_workers = 2
    /\ ppc = "returned"
    /\ Len(files) = 2
    /\ results[1].original_file = files[2]
    /\ results[1].error = "exception"
    /\ results[2].status = "success"

\* C8: a file whose text source returned no lines is reported by
\* process_single_file with status 'error' and error 'No text extracted',
\* and process_single_file calls neither extract_customer_name nor
\* rename_file for it.
C8_NoTextIsError ==
    \A i \in DOMAIN task :
        hist[i].ocr_empty =>
            /\ task[i].ret.status = "error"
            /\ task[i].ret.error = "No text extracted"
            /\ task[i].ret.original_file = files[i]
            /\ hist[i].extracts = 0
            /\ hist[i].rename_files = 0
            /\ hist[i].os_renames = 0
            /\ \A r \in DOMAIN results :
                   results[r].original_file = files[i] =>
                       results[r].status # "no_name_found"

\* a file without text is in the report
C8_Witness ==
    \E i \in DOMAIN task, r \in DOMAIN results :
        /\ hist[i].ocr_empty
        /\ results[r].original_file = files[i]
        /\ results[r].status = "error"

\* C9: when os.rename fails in process_single_file's rename_file call, the
\* record has status 'rename_failed' and carries the extracted name, the
\* rename was attempted exactly once, by no later pass either, and the file
\* still has its original name.
C9_RenameFailureReported ==
    \A i \in DOMAIN task :
        hist[i].rename_raised =>
            /\ task[i].ret.status = "rename_failed"
            /\ task[i].ret.customer_name = <<"A","l"," ","B","o","b">>
            /\ hist[i].os_renames = 1
            /\ hist[i].manual_renames = 0
            /\ dirName[FileOf(i)] = files[i]
            /\ \A r \in DOMAIN results :
                   results[r].original_file = files[i] =>
                       /\ results[r].status = "rename_failed"
                       /\ results[r].customer_name = <<"A","l"," ","B","o","b">>

\* a failed rename is in the report of a finished interactive run
C9_Witness ==
    /\ ppc = "finished"
    /\ \E i \in DOMAIN task, r \in DOMAIN results :
           /\ hist[i].rename_raised
           /\ results[r].original_file = files[i]

\* C10: every record of the report has one of the four statuses at every
\* point of a run, also after the manual review, and the four counts of
\* the summary add up to the number of records.
C10_FourStatuses ==
    /\ \A r \in DOMAIN results : results[r].status \in StatusSet
    /\ summary.printed =>
           summary.success + summary.no_name + summary.errors
               + summary.rename_failed = summary.total

----------------------------------------------------------------------------
(* Claims about the enumeration                                            *)

\* positions of the enumeration that yielded a case variant of the name
Group(name) ==
    {e \in DOMAIN enumerated : Lower(enumerated[e]) = Lower(name)}

\* C6: no two selected names are equal ignoring case; of the names the
\* globs yielded that are equal ignoring case exactly one is selected, the
\* one yielded first, and the others are skipped.
C6_OneOfEachCaseGroup ==
    /\ \A i, j \in DOMAIN files :
           i # j => Lower(files[i]) # Lower(files[j])
    /\ \A e \in DOMAIN enumerated :
           LET first == CHOOSE f \in Group(enumerated[e]) :
                            \A g \in Group(enumerated[e]) : f <= g
           IN  {k \in DOMAIN files : Lower(files[k]) = Lower(enumerated[e])}
                   = {k \in DOMAIN files : files[k] = enumerated[first]}
               /\ \E k \in DOMAIN files : files[k] = enumerated[first]

\* the enumeration is over, it yielded two different names equal ignoring
\* case, and selected only one file
C6_Witness ==
    /\ gext > NFormats
    /\ Len(files) = 1
    /\ \E d, e \in DOMAIN enumerated :
           /\ d < e
           /\ enumerated[d] # enumerated[e]
           /\ Lower(enumerated[d]) = Lower(enumerated[e])
           /\ files[1] = enumerated[d]

----------------------------------------------------------------------------
(* Keyword-anchored scan: where the candidate comes from                   *)

\* the string has nothing but ASCII letters and spaces, and some letter
LettersAndSpaces(name) ==
    /\ \A i \in 1..Len(name) : name[i] \in AsciiLetters \cup {" "}
    /\ \E i \in 1..Len(name) : name[i] \in AsciiLetters

\* the validation gate of the documentation, on a cleaned candidate
PassesGate(cfg, name) ==
    /\ Len(name) > cfg.min_name_length
    /\ Len(Split(name)) <= cfg.max_name_words
    /\ \E i \in 1..Len(name) : IsAlphaChar(name[i])
    /\ \A k \in 1..Len(cfg.excluded_words) :
           ~Contains(Lower(cfg.excluded_words[k]), Lower(name))

\* what follows the first occurrence of the keyword on the line, ignoring
\* letter case, without the separators (white space, colons) around it
RemainderAfter(keyword, line) ==
    LET occ == Occurrences(keyword, line)
    IN  IF occ = {} THEN <<>>
        ELSE LET p == CHOOSE q \in occ : \A r \in occ : q <= r
                 rest == SubSeq(line, p + Len(keyword) + 1, Len(line))
             IN  Strip(SubSeq(rest, SepRun(rest) + 1, Len(rest)))

\* the values a configured keyword is followed by on the line and that are
\* names passing the gate
SameLineValues(cfg, line) ==
    { v \in { RemainderAfter(cfg.name_keywords[k], line) :
                 k \in 1..Len(cfg.name_keywords) } :
        LettersAndSpaces(v) /\ PassesGate(cfg, v) }

\* C11: in main.py, when the first line of the text holds a configured keyword
\* followed by a name on the same line, the name returned is that remainder of
\* the line (as written or in title case); the line "Receive From: MARY LEE"
\* alone, with the keyword "receive from", gives "Mary Lee".
C11_SameLineValueIsCandidate ==
    (xpc = "done" /\ text_lines # <<>>) =>
        /\ SameLineValues(config, text_lines[1]) # {} =>
               /\ name_result.tier = "keyword"
               /\ \E v \in SameLineValues(config, text_lines[1]) :
                      name_result.name \in {v, Title(v)}
        /\ ( /\ text_lines = << ReceiveFromMaryLee >>
             /\ \E k \in 1..Len(config.name_keywords) :
                    config.name_keywords[k] = KwReceiveFrom )
               => name_result.name = MaryLee

\* the first line is a configured keyword on its own, ignoring letter case,
\* and the second a letters-and-spaces name that passes the gate
KeywordLineThenName(cfg, lines) ==
    /\ Len(lines) >= 2
    /\ \E k \in 1..Len(cfg.name_keywords) :
           Lower(Strip(lines[1])) = Lower(cfg.name_keywords[k])
    /\ LettersAndSpaces(Strip(lines[2]))
    /\ PassesGate(cfg, Strip(lines[2]))

\* C12: when a keyword occupies the first line and the line after it is a
\* letters-and-spaces name that passes the gate, the name returned is that
\* line in title case; "Transfer To", "JOHN TAN WEI MING", "RM50.00" with the
\* keyword "transfer to" give "John Tan Wei Ming".
C12_NextLineNameInTitleCase ==
    xpc = "done" =>
        /\ KeywordLineThenName(config, text_lines) =>
               name_result.name = Title(Strip(text_lines[2]))
        /\ ( /\ text_lines = << TransferTo, JohnTanWeiMing, Amount >>
             /\ \E k \in 1..Len(config.name_keywords) :
                    config.name_keywords[k] = KwTransferTo )
               => name_result.name = JohnTanWeiMingTitle

----------------------------------------------------------------------------
(* Receipts without a name                                                 *)

\* every word of the line is an excluded word, ignoring letter case
OnlyExcludedWords(cfg, line) ==
    \A w \in 1..Len(Split(line)) : Lower(Split(line)[w]) \in LoweredExcluded(cfg)

\* the line holds a digit or a punctuation character: a label with an amount,
\* a date, a reference
HasNonNameContent(line) ==
    \E i \in 1..Len(line) : ~IsAlphaChar(line[i]) /\ line[i] \notin WhiteSpace

\* C13: in main2.py a text whose lines all consist of excluded words only or
\* hold non-name content (digits, punctuation, amounts) gives no accepted
\* candidate: the outcome is "Name not found".
C13_NoNameInNonNameText ==
    ( /\ xpc = "done"
      /\ \A i \in 1..Len(text_lines) :
             \/ OnlyExcludedWords(config, text_lines[i])
             \/ HasNonNameContent(text_lines[i]) )
        => name_result = NoName

----------------------------------------------------------------------------
(* Enumeration: which files are selected                                   *)

\* the extensions of receipts, in lower case
ReceiptExtensions ==
    { <<".","j","p","g">>, <<".","j","p","e","g">>, <<".","p","n","g">>,
      <<".","p","d","f">> }

\* C14: on a case-sensitive file system, once the enumeration is over every
\* file of the folder whose extension is jpg, jpeg, png or pdf in any letter
\* case is selected, unless it is a case variant of a selected name.
C14_EveryReceiptExtensionSelected ==
    (platform = "linux" /\ ppc # "enumerate") =>
        \A id \in DOMAIN origName :
            Lower(Extension(origName[id])) \in ReceiptExtensions =>
                \E f \in 1..Len(files) : Lower(files[f]) = Lower(origName[id])

----------------------------------------------------------------------------
(* Bank detection                                                          *)

\* the keywords and app names a bank profile lists
Indicators(bank) ==
    (IF "keywords" \in DOMAIN bank
     THEN {bank.keywords[k] : k \in 1..Len(bank.keywords)} ELSE {})
    \cup
    (IF "app_names" \in DOMAIN bank
     THEN {bank.app_names[k] : k \in 1..Len(bank.app_names)} ELSE {})

\* the banks with an indicator that occurs in the text, ignoring letter case
IndicatedBanks(cfg, text) ==
    { b \in 1..Len(cfg.banks) :
        \E ind \in Indicators(cfg.banks[b]) : Contains(Lower(ind), Lower(text)) }

\* C15: detect_bank of main.py and of main2.py returns the first bank of the
\* mapping with a keyword or app name occurring in the full text, ignoring
\* letter case, and the no-match value exactly when no bank has one; a profile
\* without 'keywords' or without 'app_names' is handled like any other.
C15_FirstIndicatedBank ==
    xpc = "done" =>
        LET hits == IndicatedBanks(config, JoinLines(text_lines))
        IN  /\ hits = {} <=> detected_bank = 0
            /\ hits # {} =>
                   /\ detected_bank \in hits
                   /\ \A b \in hits : detected_bank <= b

\* several banks are indicated, by a keyword written in another letter case
\* than on the receipt and by an app name, and the first one was returned
C15_Witness ==
    /\ xpc = "done"
    /\ Cardinality(IndicatedBanks(config, JoinLines(text_lines))) >= 2
    /\ detected_bank = 1
    /\ \E b \in 1..Len(config.banks) : "keywords" \notin DOMAIN config.banks[b]
    /\ \E b \in 1..Len(config.banks) : "app_names" \notin DOMAIN config.banks[b]

----------------------------------------------------------------------------
(* Keyword matching                                                        *)

\* the line holds a keyword of the detected bank, ignoring letter case, and
\* none of the generic keywords
BankKeywordOnly(cfg, bank, line) ==
    /\ \E k \in 1..Len(BankGet(cfg.banks[bank], "keywords")) :
           Contains(Lower(BankGet(cfg.banks[bank], "keywords")[k]), Lower(line))
    /\ \A k \in 1..Len(cfg.name_keywords) :
           ~Contains(Lower(cfg.name_keywords[k]), Lower(line))

\* C16: in main.py, when a bank was detected and the first line holds a
\* keyword of that bank but no generic keyword, the line is still a keyword
\* match: a name on the next line that passes the gate is returned by the
\* keyword tier.
C16_BankKeywordsConsulted ==
    ( /\ xpc = "done"
      /\ detected_bank # 0
      /\ Len(text_lines) >= 2
      /\ BankKeywordOnly(config, detected_bank, text_lines[1])
      /\ LettersAndSpaces(Strip(text_lines[2]))
      /\ PassesGate(config, Strip(text_lines[2])) )
        => /\ name_result.tier = "keyword"
           /\ name_result.name = Strip(text_lines[2])

\* C17: in main.py a line is a keyword match exactly when some configured
\* keyword, lowercased, is a substring of the lowercased line, whatever the
\* letter case the keyword is written in.
C17_KeywordMatchIgnoresCase ==
    xpc = "done" =>
        \A i \in 1..Len(text_lines) :
            (MatchedKeyword(config, text_lines[i]) # <<>>)
                <=> \E k \in 1..Len(config.name_keywords) :
                        Contains(Lower(config.name_keywords[k]), Lower(text_lines[i]))

\* the same for keywords written in lower case only
LowercaseKeywordsMatchIgnoringCase ==
    ( /\ xpc = "done"
      /\ \A k \in 1..Len(config.name_keywords) :
             config.name_keywords[k] = Lower(config.name_keywords[k]) )
        => \A i \in 1..Len(text_lines) :
               (MatchedKeyword(config, text_lines[i]) # <<>>)
                   <=> \E k \in 1..Len(config.name_keywords) :
                           Contains(Lower(config.name_keywords[k]), Lower(text_lines[i]))

----------------------------------------------------------------------------
(* main2.py: which candidate wins                                          *)

\* the candidates line i yields that pass the gate, over the keywords in use
LineCandidates2(cfg, text, i) ==
    LET keywords == KeywordList(cfg, text)
        lines == SplitLines(text)
    IN  { VisitLine(cfg, keywords[k], lines, i)[1] :
            k \in {j \in 1..Len(keywords) :
                      VisitLine(cfg, keywords[j], lines, i) # <<>>} }

\* the lines that yield a passing candidate
CandidateLines2(cfg, text) ==
    { i \in 1..Len(SplitLines(text)) : LineCandidates2(cfg, text, i) # {} }

\* C18: in main2.py, when lines of the text yield candidates that pass the
\* gate, the name returned is a candidate of the earliest such line, whichever
\* keyword matched it.
C18_EarliestLineWins ==
    LET text == JoinLines(text_lines)
        firsts == CandidateLines2(config, text)
    IN  (xpc = "done" /\ firsts # {}) =>
            /\ name_result.tier = "keyword"
            /\ name_result.name \in
                   LineCandidates2(config, text,
                                   CHOOSE i \in firsts : \A j \in firsts : i <= j)

\* with at most one keyword in use the earliest line does win
SingleKeywordEarliestLineWins ==
    LET text == JoinLines(text_lines)
        firsts == CandidateLines2(config, text)
    IN  (xpc = "done" /\ firsts # {} /\ Len(KeywordList(config, text)) <= 1) =>
            /\ name_result.tier = "keyword"
            /\ name_result.name \in
                   LineCandidates2(config, text,
                                   CHOOSE i \in firsts : \A j \in firsts : i <= j)

----------------------------------------------------------------------------
(* main.py: the fallback tier                                              *)

\* what the documentation asks of a line of the top portion
FallbackQualifies(cfg, line) ==
    /\ Len(line) >= 6
    /\ \A i \in 1..Len(line) : IsAlphaChar(line[i]) \/ line[i] = " "
    /\ Len(Split(line)) >= 2
    /\ Len(Split(line)) <= cfg.max_name_words
    /\ \A k \in 1..Len(cfg.excluded_words) :
           ~Contains(Lower(cfg.excluded_words[k]), Lower(line))

\* positions of the first max(10, floor(n / 3)) lines that qualify
QualifyingTopLines(cfg, lines) ==
    LET n == IF Len(lines) \div 3 > 10 THEN Len(lines) \div 3 ELSE 10
    IN  { i \in 1..Len(lines) : i <= n /\ FallbackQualifies(cfg, lines[i]) }

\* C19: in main.py the fallback tier gives the result only when the keyword
\* tier accepted nothing on any line; the result is then the first of the
\* first max(10, floor(n / 3)) lines that has at least 6 characters, only
\* letters and spaces, 2 to max_name_words words and no excluded word, and
\* None when there is no such line.
C19_FallbackTier ==
    xpc = "done" =>
        LET kw == KeywordTier(config, text_lines, 1)
            q == QualifyingTopLines(config, text_lines)
        IN  /\ kw.tier # "none" => name_result = kw
            /\ (kw.tier = "none" /\ q = {}) => name_result = NoName
            /\ (kw.tier = "none" /\ q # {}) =>
                   /\ name_result.tier = "fallback"
                   /\ name_result.name =
                          text_lines[CHOOSE i \in q : \A j \in q : i <= j]

\* a receipt of 33 lines: the keyword tier accepted nothing, the lines before
\* the eleventh are too short, and the eleventh line is the result
C19_Witness ==
    /\ xpc = "done"
    /\ Len(text_lines) = 33
    /\ KeywordTier(config, text_lines, 1).tier = "none"
    /\ \A i \in 1..10 : text_lines[i] = ShortName
    /\ text_lines[11] = JohnTanWeiMing
    /\ name_result = [tier |-> "fallback", name |-> JohnTanWeiMing]

----------------------------------------------------------------------------
(* The interactive pass                                                    *)

\* the statuses of the automatic outcomes that are failures
FailureStatuses == {"no_name_found", "rename_failed", "error"}

\* the records the interactive pass holds for review
Offered(f) == {f[k] : k \in 1..Len(f)}

\* C20: when process_folder_interactive builds its list for review, every
\* record whose automatic outcome is no_name_found, rename_failed or error is
\* on it; and reviewing a file re-runs rename_file only: it makes no call of
\* the Text Source Adapter and none of the name extraction.
C20_ReviewOffersEveryFailure ==
    [][ /\ (ppc = "returned" /\ ppc' # "returned") =>
               \A r \in DOMAIN results :
                   results[r].status \in FailureStatuses => r \in Offered(failed')
        /\ ppc = "review" =>
               \A i \in DOMAIN hist :
                   /\ hist'[i].ocr_calls = hist[i].ocr_calls
                   /\ hist'[i].extracts = hist[i].extracts ]_vars

\* the list for review holds every no_name_found and error record
ReviewOffersNoNameAndError ==
    [][ (ppc = "returned" /\ ppc' # "returned") =>
            \A r \in DOMAIN results :
                results[r].status \in {"no_name_found", "error"}
                    <=> r \in Offered(failed') ]_vars

\* the review of a file makes no call of the name extraction
ReviewNeverExtracts ==
    [][ ppc = "review" =>
            \A i \in DOMAIN hist : hist'[i].extracts = hist[i].extracts ]_vars

----------------------------------------------------------------------------
(* rename_file on a file that already carries a receipt name               *)

\* no entry of the directory has the name, the file at hand included
NoEntryNamed(dir, name) ==
    \A id \in DOMAIN dir : dir[id] = Gone \/ ~SameName(dir[id], name)

\* C21: in main.py the name a successful rename_file gives was the name of no
\* directory entry, the file itself included, when the probe found it free;
\* so a file already named <Name>_receipt<ext> that is processed again with
\* the same customer name gets a numbered name and does not keep its name.
C21_RenameNeverKeepsTheName ==
    [][ /\ \A i \in DOMAIN task :
              /\ (task[i].pc = "probe" /\ task'[i].pc = "rename") =>
                     /\ NoEntryNamed(dirName, NewPath(i))
                     /\ task'[i].counter = task[i].counter
              /\ (task[i].pc = "rename" /\ task'[i].ret.status = "success") =>
                     /\ task'[i].ret.new_filename = NewPath(i)
                     /\ task'[i].ret.new_filename # files[i]
                     /\ dirName'[FileOf(i)] = NewPath(i)
                     /\ dirName'[FileOf(i)] # dirName[FileOf(i)]
                     /\ files[i] = NewFilename(task[i].customer_name, files[i], 1) =>
                            \E c \in 2..(Len(origName) + 1) :
                                task'[i].ret.new_filename =
                                    NewFilename(task[i].customer_name, files[i], c)
        /\ ppc = "review" =>
               \A id \in DOMAIN dirName :
                   (dirName'[id] # dirName[id] /\ dirName'[id] # Gone) =>
                       NoEntryNamed(dirName, dirName'[id]) ]_vars

\* a file named Al_Bob_receipt.jpg whose receipt gave the name of its file
\* name again was renamed to Al_Bob_receipt_1.jpg
C21_Witness ==
    \E i \in DOMAIN task :
        /\ files[i] = AlBobReceipt \o DotJpg
        /\ task[i].ret.status = "success"
        /\ task[i].ret.new_filename = AlBobReceipt \o <<"_", "1">> \o DotJpg
        /\ dirName[FileOf(i)] = AlBobReceipt \o <<"_", "1">> \o DotJpg

----------------------------------------------------------------------------
(* main2.py: sanitize_filename and process_receipts_bulk                   *)

\* invalid_chars = '<>:"/\\|?*'
InvalidChars == {"<", ">", ":", "\"", "/", "\\", "|", "?", "*"}

sanitize_filename(name) ==
    Strip(SelectSeq(name, LAMBDA c : c \notin InvalidChars))

\* Path.suffix: from the last dot on, when that dot is neither the first nor
\* the last character of the name
Suffix(name) ==
    LET dots == {i \in 2..(Len(name) - 1) : name[i] = "."}
    IN  IF dots = {} THEN <<>>
        ELSE SubSeq(name, CHOOSE i \in dots : \A j \in dots : i >= j, Len(name))

image_extensions ==
    { <<".","p","n","g">>, <<".","j","p","g">>, <<".","j","p","e","g">>,
      <<".","t","i","f">>, <<".","t","i","f","f">>, <<".","b","m","p">> }

\* the sentinels extract_customer_name and process_receipts_bulk use for
\* customer_name
NameNotFound == << "Name not found" >>
NoTextExtracted == << "Error - No text extracted" >>

\* new_path != image_file negated: Path equality follows the letter case on
\* POSIX and folds it on Windows
PathEqual(a, b) == a = b \/ (platform = "windows" /\ Lower(a) = Lower(b))

\* f"{safe_name}{suffix}" for k = 0, f"{safe_name}_{k}{suffix}" after that
BulkName(safe_name, suffix, k) ==
    IF k = 0 THEN safe_name \o suffix
    ELSE safe_name \o <<"_">> \o Decimal(k) \o suffix

\* the loop without its "new_path != image_file": the file's own name is taken
RECURSIVE BulkSettleCountingSelf(_, _, _, _)
BulkSettleCountingSelf(dir, image_file, safe_name, k) ==
    LET new_filename == BulkName(safe_name, Suffix(image_file), k)
    IN  IF Exists(dir, new_filename)
        THEN BulkSettleCountingSelf(dir, image_file, safe_name, k + 1)
        ELSE new_filename

\* the loop "while new_path.exists() and new_path != image_file", entered with
\* the name of number k: the new_filename it ends with
RECURSIVE BulkSettle(_, _, _, _)
BulkSettle(dir, image_file, safe_name, k) ==
    LET new_filename == BulkName(safe_name, Suffix(image_file), k)
    IN  IF Exists(dir, new_filename) /\ ~PathEqual(new_filename, image_file)
        THEN BulkSettle(dir, image_file, safe_name, k + 1)
        ELSE new_filename

\* the entry appended to results
BulkRecord(original_filename, new_filename, customer_name) ==
    [original_filename |-> original_filename, new_filename |-> new_filename,
     customer_name |-> customer_name]

MaxRuns == 2

\* "From Cy: Dee"
FromCyDee ==
    << "F", "r", "o", "m", " ", "C", "y", ":", " ", "D", "e", "e" >>

\* the texts extract_text_from_image may return for a file; <<>> is "", also
\* what it returns when the OCR call raises
BulkTexts == { <<>>, << "1" >>, FromAlBob, FromCyDee }

\* extract_customer_name on each of these texts
BulkExtracted ==
    [text \in BulkTexts |->
        LET r == extract_customer_name2(BatchConfig, text)
        IN  IF r.tier = "none" THEN NameNotFound ELSE r.name]

\* names a folder may hold when process_receipts_bulk is run
BulkNamePool ==
    << <<"a",".","j","p","g">>,
       <<"A","l"," ","B","o","b",".","j","p","g">>,
       <<"A","l"," ","B","o","b","_","1",".","j","p","g">>,
       <<"a","l"," ","b","o","b",".","j","p","g">>,
       <<"n",".","t","x","t">> >>

\* the orders input_path.iterdir() may list a set of names in
Orders(S) ==
    { f \in [1..Cardinality(S) -> S] :
        \A i, j \in 1..Cardinality(S) : i # j => f[i] # f[j] }

InitBulk ==
    /\ config = BatchConfig
    /\ text_lines = <<>>
    /\ name_result = NoName
    /\ detected_bank = 0
    /\ xpc = "batch"
    /\ platform \in {"linux", "macos", "windows"}
    /\ max_workers = 1
    /\ origName \in Directories(BulkNamePool)
    /\ ValidDirectory(origName)
    /\ dirName = origName
    /\ ppc = "bulk_start"
    /\ gext = 1
    /\ yielded = {}
    /\ enumerated = <<>>
    /\ files = <<>>
    /\ seen_files = {}
    /\ task = <<>>
    /\ results = <<>>
    /\ failed = <<>>
    /\ summary = NoSummary
    /\ hist = <<>>
    /\ bulk \in [yields : [DOMAIN origName -> BulkTexts], run : {1},
                 before : {origName}, raised : {FALSE}]

\* image_files = [f for f in input_path.iterdir()
\*                if f.suffix.lower() in image_extensions]; results = []
BulkList ==
    /\ ppc = "bulk_start"
    /\ LET names == { dirName[id] : id \in {j \in DOMAIN dirName :
                          /\ dirName[j] # Gone
                          /\ Lower(Suffix(dirName[j])) \in image_extensions} }
       IN  files' \in Orders(names)
    /\ results' = <<>>
    /\ bulk' = [bulk EXCEPT !.before = dirName]
    /\ ppc' = "bulk_loop"
    /\ UNCHANGED <<xvars, platform, max_workers, origName, dirName, gext,
                   yielded, enumerated, seen_files, task, failed, summary, hist>>

\* the body of "if text:" once customer_name is known, and its else branch
BulkOutcome(image_file, text, customer_name, new_filename) ==
    \/ /\ text = <<>>
       /\ results' = Append(results,
              BulkRecord(image_file, image_file, NoTextExtracted))
       /\ UNCHANGED <<dirName, bulk>>
    \/ /\ text # <<>>
       /\ customer_name = NameNotFound
       /\ results' = Append(results,
              BulkRecord(image_file, image_file, customer_name))
       /\ UNCHANGED <<dirName, bulk>>
    \/ /\ text # <<>>
       /\ customer_name # NameNotFound
       /\ \E raises \in BOOLEAN :
              IF raises \/ RenameMustRaise(dirName, image_file, new_filename)
              THEN /\ results' = Append(results,
                          BulkRecord(image_file, image_file, customer_name))
                   /\ bulk' = [bulk EXCEPT !.raised = TRUE]
                   /\ UNCHANGED dirName
              ELSE /\ results' = Append(results,
                          BulkRecord(image_file, new_filename, customer_name))
                   /\ dirName' = Renamed(dirName, image_file, new_filename)
                   /\ UNCHANGED bulk

\* safe_name = sanitize_filename(customer_name) and the collision loop
BulkNamed(image_file, text, customer_name) ==
    BulkOutcome(image_file, text, customer_name,
        BulkSettle(dirName, image_file, sanitize_filename(customer_name), 0))

\* text = extract_text_from_image(image_file);
\* customer_name = extract_customer_name(text, config)
BulkRead(image_file, text) ==
    BulkNamed(image_file, text, BulkExtracted[text])

\* one iteration of "for idx, image_file in enumerate(image_files, 1)"
BulkFile ==
    /\ ppc = "bulk_loop"
    /\ Len(results) < Len(files)
    /\ LET image_file == files[Len(results) + 1]
           id == FileAt(dirName, image_file)
       IN  BulkRead(image_file, IF id = 0 THEN <<>> ELSE bulk.yields[id])
    /\ UNCHANGED <<xvars, platform, max_workers, origName, gext, yielded,
                   enumerated, files, seen_files, ppc, task, failed, summary,
                   hist>>

\* after the loop: the CSV is written and results returned
BulkFinish ==
    /\ ppc = "bulk_loop"
    /\ Len(results) = Len(files)
    /\ ppc' = "bulk_done"
    /\ UNCHANGED <<xvars, kvars, platform, max_workers, origName, dirName, gext,
                   yielded, enumerated, files, seen_files, task, results,
                   failed, summary, hist>>

\* the script is run again on the folder; every receipt reads as before
BulkRerun ==
    /\ ppc = "bulk_done"
    /\ bulk.run < MaxRuns
    /\ bulk' = [bulk EXCEPT !.run = @ + 1]
    /\ ppc' = "bulk_start"
    /\ UNCHANGED <<xvars, platform, max_workers, origName, dirName, gext,
                   yielded, enumerated, files, seen_files, task, results,
                   failed, summary, hist>>

NextBulk ==
    \/ BulkList
    \/ BulkFile
    \/ BulkFinish
    \/ BulkRerun

SpecBulk == InitBulk /\ [][NextBulk]_vars

----------------------------------------------------------------------------
(* process_receipts_bulk run again                                         *)

\* the file that was listed as the k-th of image_files
BulkFileOf(k) == CHOOSE id \in DOMAIN bulk.before : bulk.before[id] = files[k]

\* the customer name the receipt of a file gives, sanitized; <<>> when the
\* receipt gives no text or no name
FoundName(id) ==
    LET text == bulk.yields[id]
    IN  IF text = <<>> \/ BulkExtracted[text] = NameNotFound THEN <<>>
        ELSE sanitize_filename(BulkExtracted[text])

\* the k-th name of the scheme of a file is held by another directory entry
HeldByAnother(dir, id, k) ==
    LET name == BulkName(FoundName(id), Suffix(dir[id]), k)
    IN  /\ \E other \in DOMAIN dir : dir[other] # Gone /\ SameName(dir[other], name)
        /\ ~PathEqual(name, dir[id])

\* the file carries the first name of its scheme that no other entry holds
Settled(dir, id) ==
    \E k \in 0..Len(dir) :
        /\ dir[id] = BulkName(FoundName(id), Suffix(dir[id]), k)
        /\ \A j \in 0..(k - 1) : HeldByAnother(dir, id, j)

\* every receipt file with a name to give carries it already
AllSettled(dir) ==
    \A id \in DOMAIN dir :
        (/\ dir[id] # Gone
         /\ Lower(Suffix(dir[id])) \in image_extensions
         /\ FoundName(id) # <<>>) => Settled(dir, id)

\* each record made so far shows the name its file has
RecordsShowActualNames ==
    ppc \in {"bulk_loop", "bulk_done"} =>
        \A k \in 1..Len(results) :
            /\ results[k].original_filename = files[k]
            /\ dirName[BulkFileOf(k)] = results[k].new_filename

\* C22: process_receipts_bulk is idempotent on file names: run again over the
\* folder, with every receipt giving the customer name it gave before and no
\* rename having failed, it leaves every file name as it was when the run
\* began; and every record's new_filename is the name the file has.
C22_BulkIdempotentOnNames ==
    /\ RecordsShowActualNames
    /\ (ppc = "bulk_done" /\ bulk.run >= 2 /\ ~bulk.raised) =>
           dirName = bulk.before

\* C22, amended: a run over a folder in which every receipt file already
\* carries the name the collision loop settles on for it (the first name of
\* base, _1, _2, ... that no other entry holds) renames each file to itself and
\* leaves every file name unchanged; and in every outcome the record's
\* new_filename is the name the file has after processing.
C22_SettledNamesStay ==
    /\ RecordsShowActualNames
    /\ (ppc = "bulk_done" /\ AllSettled(bulk.before)) =>
           /\ dirName = bulk.before
           /\ \A k \in 1..Len(results) : results[k].new_filename = files[k]

\* the second run over a folder the first run had renamed files in: a file
\* named Al Bob_1.jpg whose receipt gives Al Bob was renamed to itself
C22_Witness ==
    /\ ppc = "bulk_done"
    /\ bulk.run = 2
    /\ ~bulk.raised
    /\ bulk.before # origName
    /\ AllSettled(bulk.before)
    /\ dirName = bulk.before
    /\ \E k \in 1..Len(results) :
           /\ files[k] = <<"A","l"," ","B","o","b","_","1",".","j","p","g">>
           /\ results[k].customer_name = <<"A","l"," ","B","o","b">>
           /\ results[k].new_filename = files[k]

====
